---- MODULE Spec2Model ----
(***************************************************************************)
(* Model of the regression-test crate: RegTest sessions (new, regtest,     *)
(* regtest_dbg, Drop), the JSON snapshot file they read and write, the     *)
(* #[regtest] test wrapper, and the line diff used in mismatch messages.   *)
(*                                                                         *)
(* Strings are sequences of one-character strings.  A file is a sequence   *)
(* of JSON tokens (each token a string of characters); the whitespace of   *)
(* the pretty printer is not modelled, the parser skips it.                *)
(*                                                                         *)
(* Three specifications:                                                   *)
(*   Spec      runs of one test, one after another, on one location;       *)
(*   ConcSpec  one run of the harness with two tests running concurrently, *)
(*             on the same location or on different ones;                  *)
(*   DiffSpec  diff_lines applied to bounded inputs.                       *)
(* Drop::drop is two steps, the open (which truncates) and the write,      *)
(* because the file is visible to other sessions between the two and       *)
(* either may fail.  log, drops, writes, ioerr, alone, source, recorded    *)
(* and runs are history variables; the rest is program state.              *)
(***************************************************************************)
EXTENDS Integers, Sequences, FiniteSets, TLC

\* ---------------------------------------------------------------- bounds
\* Submissions one Write-mode session may make.
MaxEntries == 3
\* Test starts (RegTest::new calls) of one behaviour.
MaxRuns == 3
\* Submissions of a Write-mode session when two tests run concurrently.
MaxConcEntries == 1
\* Characters of a diff_lines input (DiffSpec).
MaxLen == 3

Sessions == {1, 2}
Locations == {"p", "q"}

NL == "\n"
QUOTE == "\""
BSLASH == "\\"

\* ------------------------------------------------------- string helpers
IsPrefix(s, t) == Len(s) <= Len(t) /\ SubSeq(t, 1, Len(s)) = s

\* ------------------------------------------------------------ rendering
\* The values a test submits: the integer 4 and the string "4".  format!("{}")
\* renders both as 4; format!("{:?}") renders the string quoted and escaped.
IntVal(d) == [t |-> "int", v |-> <<d>>]
StrVal(cs) == [t |-> "str", v |-> cs]
Values == {IntVal("4"), StrVal(<<"4">>)}

RECURSIVE EscapeChars(_)
EscapeChars(cs) ==
    IF cs = <<>> THEN <<>>
    ELSE LET c == Head(cs)
         IN (IF c = QUOTE THEN <<BSLASH, QUOTE>>
             ELSE IF c = BSLASH THEN <<BSLASH, BSLASH>>
             ELSE IF c = NL THEN <<BSLASH, "n">>
             ELSE <<c>>) \o EscapeChars(Tail(cs))

\* Inverse of EscapeChars; <<"!">> marks an invalid escape.
BadEscape == <<"!">>
RECURSIVE UnescapeChars(_)
UnescapeChars(cs) ==
    IF cs = <<>> THEN <<>>
    ELSE IF Head(cs) = QUOTE THEN BadEscape
    ELSE IF Head(cs) = BSLASH
         THEN IF Len(cs) < 2 THEN BadEscape
              ELSE LET c == cs[2]
                       rest == UnescapeChars(Tail(Tail(cs)))
                   IN IF rest = BadEscape \/ c \notin {QUOTE, BSLASH, "n"} THEN BadEscape
                      ELSE <<(IF c = "n" THEN NL ELSE c)>> \o rest
    ELSE LET rest == UnescapeChars(Tail(cs))
         IN IF rest = BadEscape THEN BadEscape ELSE <<Head(cs)>> \o rest

FmtDisplay(value) == value.v
FmtDebug(value) ==
    IF value.t = "int" THEN value.v
    ELSE <<QUOTE>> \o EscapeChars(value.v) \o <<QUOTE>>

\* ----------------------------------------------------- snapshot format
RegTypes == {"Display", "Debug"}
RegEntry(reg_type, message) == [reg_type |-> reg_type, message |-> message]

Chars(str) == CASE str = "type" -> <<"t", "y", "p", "e">>
                [] str = "message" -> <<"m", "e", "s", "s", "a", "g", "e">>
                [] str = "display" -> <<"d", "i", "s", "p", "l", "a", "y">>
                [] str = "debug" -> <<"d", "e", "b", "u", "g">>

JsonString(cs) == <<QUOTE>> \o EscapeChars(cs) \o <<QUOTE>>

\* #[serde(rename_all = "lowercase")]
RegTypeName(reg_type) == IF reg_type = "Display" THEN Chars("display") ELSE Chars("debug")

EntryTokens(e) ==
    << <<"{">>, JsonString(Chars("type")), <<":">>, JsonString(RegTypeName(e.reg_type)), <<",">>,
       JsonString(Chars("message")), <<":">>, JsonString(e.message), <<"}">> >>

RECURSIVE SerializeEntries(_)
SerializeEntries(buf) ==
    IF buf = <<>> THEN <<>>
    ELSE EntryTokens(Head(buf))
         \o (IF Len(buf) > 1 THEN << <<",">> >> ELSE <<>>)
         \o SerializeEntries(Tail(buf))

SerializeAlwaysDisplay(buf) ==
    << <<"[">> >>
    \o SerializeEntries([i \in 1..Len(buf) |-> RegEntry("Display", buf[i].message)])
    \o << <<"]">> >>

\* serde_json::to_writer_pretty(&mut writer, &self.buffer)
Serialize(buf) == << <<"[">> >> \o SerializeEntries(buf) \o << <<"]">> >>

ParseError == [ok |-> FALSE, entries |-> <<>>]

IsJsonString(tok) == Len(tok) >= 2 /\ tok[1] = QUOTE /\ tok[Len(tok)] = QUOTE
JsonStringBody(tok) == UnescapeChars(SubSeq(tok, 2, Len(tok) - 1))

\* Whether the nine tokens from position p on are one RegEntry object.
IsEntryAt(toks, p) ==
    /\ toks[p] = <<"{">>
    /\ toks[p + 1] = JsonString(Chars("type"))
    /\ toks[p + 2] = <<":">>
    /\ IsJsonString(toks[p + 3])
    /\ JsonStringBody(toks[p + 3]) \in {Chars("display"), Chars("debug")}
    /\ toks[p + 4] = <<",">>
    /\ toks[p + 5] = JsonString(Chars("message"))
    /\ toks[p + 6] = <<":">>
    /\ IsJsonString(toks[p + 7])
    /\ JsonStringBody(toks[p + 7]) # BadEscape
    /\ toks[p + 8] = <<"}">>

EntryAt(toks, p) ==
    RegEntry(IF JsonStringBody(toks[p + 3]) = Chars("display") THEN "Display" ELSE "Debug",
             JsonStringBody(toks[p + 7]))

\* serde_json::from_reader into Vec<RegEntry>: the entries, or ParseError.
Parse(toks) ==
    LET n == Len(toks) IN
    IF n < 2 \/ toks[1] # <<"[">> \/ toks[n] # <<"]">> THEN ParseError
    ELSE IF n = 2 THEN [ok |-> TRUE, entries |-> <<>>]
    ELSE IF (n - 1) % 10 # 0 THEN ParseError
    ELSE LET k == (n - 1) \div 10 IN
         IF \/ \E i \in 1..k : ~IsEntryAt(toks, 2 + 10 * (i - 1))
            \/ \E i \in 1..(k - 1) : toks[1 + 10 * i] # <<",">>
         THEN ParseError
         ELSE [ok |-> TRUE, entries |-> [i \in 1..k |-> EntryAt(toks, 2 + 10 * (i - 1))]]

\* ------------------------------------------------------------ diff_lines
RECURSIVE SplitNL(_, _)
\* The pieces of cs between newlines; cur is the piece being read.
SplitNL(cs, cur) ==
    IF cs = <<>> THEN <<cur>>
    ELSE IF Head(cs) = NL THEN <<cur>> \o SplitNL(Tail(cs), <<>>)
    ELSE SplitNL(Tail(cs), Append(cur, Head(cs)))

\* str::lines(): split at newlines, a final empty piece is no line.  (The
\* carriage return lines() also strips is not in any alphabet used here.)
Lines(cs) ==
    LET ps == SplitNL(cs, <<>>)
    IN IF ps[Len(ps)] = <<>> THEN SubSeq(ps, 1, Len(ps) - 1) ELSE ps

\* unwrap_or(&""): a missing index reads as the empty line.
LineAt(lines, i) == IF i <= Len(lines) THEN lines[i] ELSE <<>>

Max(a, b) == IF a >= b THEN a ELSE b

\* format!("{prefix}{line}\n") for every line of a block.
RECURSIVE FmtBlock(_, _)
FmtBlock(prefix, block) ==
    IF block = <<>> THEN <<>>
    ELSE prefix \o Head(block) \o <<NL>> \o FmtBlock(prefix, Tail(block))

MinusPrefix == <<"-", " ">>
PlusPrefix == <<"+", " ">>
ContextPrefix == <<" ", " ">>


\* A loop that writes each differing index at once: "- " line, then "+ " line.
RECURSIVE DiffLoopInterleaved(_, _, _, _, _, _)
DiffLoopInterleaved(exp_lines, act_lines, i, diff, minus_block, plus_block) ==
    IF i > Max(Len(exp_lines), Len(act_lines))
    THEN diff
    ELSE LET exp == LineAt(exp_lines, i)
             act == LineAt(act_lines, i)
         IN IF exp # act
            THEN DiffLoopInterleaved(exp_lines, act_lines, i + 1,
                     diff \o (IF exp # <<>> THEN FmtBlock(MinusPrefix, <<exp>>) ELSE <<>>)
                          \o (IF act # <<>> THEN FmtBlock(PlusPrefix, <<act>>) ELSE <<>>),
                     minus_block, plus_block)
            ELSE DiffLoopInterleaved(exp_lines, act_lines, i + 1,
                     diff \o FmtBlock(ContextPrefix, <<exp>>), minus_block, plus_block)

\* The for loop of diff_lines from index i on, then the final flush.
RECURSIVE DiffLoop(_, _, _, _, _, _)
DiffLoop(exp_lines, act_lines, i, diff, minus_block, plus_block) ==
    IF i > Max(Len(exp_lines), Len(act_lines))
    THEN diff \o FmtBlock(MinusPrefix, minus_block) \o FmtBlock(PlusPrefix, plus_block)
    ELSE LET exp == LineAt(exp_lines, i)
             act == LineAt(act_lines, i)
         IN IF exp # act
            THEN DiffLoop(exp_lines, act_lines, i + 1, diff,
                          IF exp # <<>> THEN Append(minus_block, exp) ELSE minus_block,
                          IF act # <<>> THEN Append(plus_block, act) ELSE plus_block)
            ELSE IF minus_block # <<>> \/ plus_block # <<>>
            THEN DiffLoop(exp_lines, act_lines, i + 1,
                          diff \o FmtBlock(MinusPrefix, minus_block)
                               \o FmtBlock(PlusPrefix, plus_block),
                          <<>>, <<>>)
            ELSE DiffLoop(exp_lines, act_lines, i + 1,
                          diff \o FmtBlock(ContextPrefix, <<exp>>), minus_block, plus_block)

diff_lines(exp_text, act_text) ==
    DiffLoop(Lines(exp_text), Lines(act_text), 1, <<>>, <<>>, <<>>)

\* ---------------------------------------------------------------- state
VARIABLES
    file,        \* location -> [exists, data]: the artifact on disk
    pc,          \* session -> "none" | "live" | "writing" | "closed"
    file_path,   \* session -> RegTest.file_path
    mode,        \* session -> "none" | "Write" | "Read"
    buffer,      \* session -> RegTest.buffer
    read_index,  \* session -> RegTest.read_index
    failure,     \* session -> the panic that ended the test, [err, diff]
    log,         \* session -> the (kind, text) pairs submitted so far
    drops,       \* session -> times Drop::drop ran for the current RegTest
    writes,      \* session -> times the current RegTest opened its file for writing
    ioerr,       \* session -> whether a write-side I/O call of drop failed
    alone,       \* session -> no other session was bound to its location meanwhile
    source,      \* session -> recorded[file_path] as it was when new() ran
    recorded,    \* location -> the buffer of the last undisturbed complete write
    runs,        \* RegTest::new calls made so far
    exp_text,    \* diff_lines input: expected
    act_text,    \* diff_lines input: actual
    report       \* diff_lines output, [done, text]

sessVars == <<pc, file_path, mode, buffer, read_index, failure, log, drops, writes,
              ioerr, alone, source, runs>>
diskVars == <<file, recorded>>
diffVars == <<exp_text, act_text, report>>
vars == <<sessVars, diskVars, diffVars>>

Absent == [exists |-> FALSE, data |-> <<>>]
\* An artifact that is no JSON array of entries.
Garbage == [exists |-> TRUE, data |-> << <<"{">> >>]
NotRecorded == [valid |-> FALSE, entries |-> <<>>]
NoFailure == [err |-> "none", diff |-> <<>>]
Panic(err) == [err |-> err, diff |-> <<>>]
NoPath == "-"

Init ==
    /\ file \in [Locations -> {Absent, Garbage}]
    /\ recorded = [l \in Locations |-> NotRecorded]
    /\ pc = [s \in Sessions |-> "none"]
    /\ file_path = [s \in Sessions |-> NoPath]
    /\ mode = [s \in Sessions |-> "none"]
    /\ buffer = [s \in Sessions |-> <<>>]
    /\ read_index = [s \in Sessions |-> 0]
    /\ failure = [s \in Sessions |-> NoFailure]
    /\ log = [s \in Sessions |-> <<>>]
    /\ drops = [s \in Sessions |-> 0]
    /\ writes = [s \in Sessions |-> 0]
    /\ ioerr = [s \in Sessions |-> FALSE]
    /\ alone = [s \in Sessions |-> TRUE]
    /\ source = [s \in Sessions |-> NotRecorded]
    /\ runs = 0
    /\ exp_text = <<>>
    /\ act_text = <<>>
    /\ report = [done |-> FALSE, text |-> <<>>]

\* ---------------------------------------------------------- RegTest::new
NewResult(ok, err, m, buf) == [ok |-> ok, err |-> err, mode |-> m, buffer |-> buf, read_index |-> 0]

\* A new() that regenerates the snapshot when the artifact does not parse.
RegTestNewFallback(f, openOk) ==
    IF f.exists
    THEN IF ~openOk THEN NewResult(FALSE, "ReadError", "none", <<>>)
         ELSE IF Parse(f.data).ok THEN NewResult(TRUE, "none", "Read", Parse(f.data).entries)
         ELSE NewResult(TRUE, "none", "Write", <<>>)
    ELSE NewResult(TRUE, "none", "Write", <<>>)

\* RegTest::new(path) on the artifact f; openOk is whether opening it for
\* reading succeeds.  Err(e) of the parser is the CorruptSnapshot failure.
RegTestNew(f, openOk) ==
    IF f.exists
    THEN IF ~openOk THEN NewResult(FALSE, "ReadError", "none", <<>>)
         ELSE IF Parse(f.data).ok THEN NewResult(TRUE, "none", "Read", Parse(f.data).entries)
         ELSE NewResult(FALSE, "CorruptSnapshot", "none", <<>>)
    ELSE NewResult(TRUE, "none", "Write", <<>>)

\* ------------------------------------------------------ regtest_internal
Outcome(buf, idx, panic) == [buffer |-> buf, read_index |-> idx, panic |-> panic]

\* Mode::Read without the read_index >= len check: an extra entry is accepted.
RegtestInternalNoExtraCheck(m, buf, idx, message, reg_type) ==
    IF m = "Write" THEN Outcome(Append(buf, RegEntry(reg_type, message)), idx, NoFailure)
    ELSE IF idx >= Len(buf) THEN Outcome(buf, idx, NoFailure)
    ELSE LET expected == buf[idx + 1] IN
         IF expected.reg_type # reg_type THEN Outcome(buf, idx + 1, Panic("KindMismatch"))
         ELSE IF expected.message # message
         THEN Outcome(buf, idx + 1, [err |-> "ContentMismatch",
                                     diff |-> diff_lines(expected.message, message)])
         ELSE Outcome(buf, idx + 1, NoFailure)

\* Mode::Read looking the submission up anywhere in the baseline.
RegtestInternalAnyOrder(m, buf, idx, message, reg_type) ==
    IF m = "Write" THEN Outcome(Append(buf, RegEntry(reg_type, message)), idx, NoFailure)
    ELSE IF idx >= Len(buf) THEN Outcome(buf, idx, Panic("UnexpectedExtraEntry"))
    ELSE IF \E i \in 1..Len(buf) : buf[i] = RegEntry(reg_type, message)
    THEN Outcome(buf, idx + 1, NoFailure)
    ELSE LET expected == buf[idx + 1] IN
         IF expected.reg_type # reg_type THEN Outcome(buf, idx + 1, Panic("KindMismatch"))
         ELSE Outcome(buf, idx + 1, [err |-> "ContentMismatch",
                                     diff |-> diff_lines(expected.message, message)])

\* Mode::Read without the reg_type comparison.
RegtestInternalNoKindCheck(m, buf, idx, message, reg_type) ==
    IF m = "Write" THEN Outcome(Append(buf, RegEntry(reg_type, message)), idx, NoFailure)
    ELSE IF idx >= Len(buf) THEN Outcome(buf, idx, Panic("UnexpectedExtraEntry"))
    ELSE LET expected == buf[idx + 1] IN
         IF expected.message # message
         THEN Outcome(buf, idx + 1, [err |-> "ContentMismatch",
                                     diff |-> diff_lines(expected.message, message)])
         ELSE Outcome(buf, idx + 1, NoFailure)


\* Mode::Write that leaves out an entry equal to the one before it.
RegtestInternalDedup(m, buf, idx, message, reg_type) ==
    IF m = "Write"
    THEN IF buf # <<>> /\ buf[Len(buf)] = RegEntry(reg_type, message)
         THEN Outcome(buf, idx, NoFailure)
         ELSE Outcome(Append(buf, RegEntry(reg_type, message)), idx, NoFailure)
    ELSE IF idx >= Len(buf) THEN Outcome(buf, idx, Panic("UnexpectedExtraEntry"))
    ELSE LET expected == buf[idx + 1] IN
         IF expected.reg_type # reg_type THEN Outcome(buf, idx + 1, Panic("KindMismatch"))
         ELSE IF expected.message # message
         THEN Outcome(buf, idx + 1, [err |-> "ContentMismatch",
                                     diff |-> diff_lines(expected.message, message)])
         ELSE Outcome(buf, idx + 1, NoFailure)


\* Mode::Read that increments read_index before the read_index >= len check.
RegtestInternalIncOnExtra(m, buf, idx, message, reg_type) ==
    IF m = "Write" THEN Outcome(Append(buf, RegEntry(reg_type, message)), idx, NoFailure)
    ELSE IF idx >= Len(buf) THEN Outcome(buf, idx + 1, Panic("UnexpectedExtraEntry"))
    ELSE LET expected == buf[idx + 1] IN
         IF expected.reg_type # reg_type THEN Outcome(buf, idx + 1, Panic("KindMismatch"))
         ELSE IF expected.message # message
         THEN Outcome(buf, idx + 1, [err |-> "ContentMismatch",
                                     diff |-> diff_lines(expected.message, message)])
         ELSE Outcome(buf, idx + 1, NoFailure)

\* Mode::Read that increments read_index only after both checks passed.
RegtestInternalAdvanceOnMatch(m, buf, idx, message, reg_type) ==
    IF m = "Write" THEN Outcome(Append(buf, RegEntry(reg_type, message)), idx, NoFailure)
    ELSE IF idx >= Len(buf) THEN Outcome(buf, idx, Panic("UnexpectedExtraEntry"))
    ELSE LET expected == buf[idx + 1] IN
         IF expected.reg_type # reg_type THEN Outcome(buf, idx, Panic("KindMismatch"))
         ELSE IF expected.message # message
         THEN Outcome(buf, idx, [err |-> "ContentMismatch",
                                 diff |-> diff_lines(expected.message, message)])
         ELSE Outcome(buf, idx + 1, NoFailure)

\* Mode::Read that compares the message before the reg_type.
RegtestInternalTextFirst(m, buf, idx, message, reg_type) ==
    IF m = "Write" THEN Outcome(Append(buf, RegEntry(reg_type, message)), idx, NoFailure)
    ELSE IF idx >= Len(buf) THEN Outcome(buf, idx, Panic("UnexpectedExtraEntry"))
    ELSE LET expected == buf[idx + 1] IN
         IF expected.message # message
         THEN Outcome(buf, idx + 1, [err |-> "ContentMismatch",
                                     diff |-> diff_lines(expected.message, message)])
         ELSE IF expected.reg_type # reg_type
         THEN Outcome(buf, idx + 1, Panic("KindMismatch"))
         ELSE Outcome(buf, idx + 1, NoFailure)


\* Mode::Read that takes a mismatching message over into the baseline.
RegtestInternalUpdatesBaseline(m, buf, idx, message, reg_type) ==
    IF m = "Write" THEN Outcome(Append(buf, RegEntry(reg_type, message)), idx, NoFailure)
    ELSE IF idx >= Len(buf) THEN Outcome(buf, idx, Panic("UnexpectedExtraEntry"))
    ELSE LET expected == buf[idx + 1] IN
         IF expected.reg_type # reg_type THEN Outcome(buf, idx + 1, Panic("KindMismatch"))
         ELSE IF expected.message # message
         THEN Outcome([buf EXCEPT ![idx + 1] = RegEntry(reg_type, message)], idx + 1,
                      [err |-> "ContentMismatch",
                       diff |-> diff_lines(expected.message, message)])
         ELSE Outcome(buf, idx + 1, NoFailure)

\* regtest_internal(&mut self, message, reg_type): the new buffer and
\* read_index, and the panic raised (NoFailure when it returns).
RegtestInternal(m, buf, idx, message, reg_type) ==
    IF m = "Write" THEN Outcome(Append(buf, RegEntry(reg_type, message)), idx, NoFailure)
    ELSE IF idx >= Len(buf) THEN Outcome(buf, idx, Panic("UnexpectedExtraEntry"))
    ELSE LET expected == buf[idx + 1] IN
         IF expected.reg_type # reg_type THEN Outcome(buf, idx + 1, Panic("KindMismatch"))
         ELSE IF expected.message # message
         THEN Outcome(buf, idx + 1, [err |-> "ContentMismatch",
                                     diff |-> diff_lines(expected.message, message)])
         ELSE Outcome(buf, idx + 1, NoFailure)

\* ----------------------------------------------------------------- drop
Truncated == [exists |-> TRUE, data |-> <<>>]

\* A write of data at offset 0 of a file holding old.
WriteAt0(old, data) ==
    data \o (IF Len(old) > Len(data) THEN SubSeq(old, Len(data) + 1, Len(old)) ELSE <<>>)


\* A drop that opens one fixed path, "p", instead of its own file_path.
DropBeginSharedPath(s) ==
    /\ drops' = [drops EXCEPT ![s] = @ + 1]
    /\ IF mode[s] = "Write"
       THEN \E openOk \in BOOLEAN :
               IF openOk
               THEN /\ file' = [file EXCEPT !["p"] = Truncated]
                    /\ recorded' = [recorded EXCEPT !["p"] = NotRecorded]
                    /\ writes' = [writes EXCEPT ![s] = @ + 1]
                    /\ pc' = [pc EXCEPT ![s] = "writing"]
                    /\ UNCHANGED ioerr
               ELSE /\ pc' = [pc EXCEPT ![s] = "closed"]
                    /\ ioerr' = [ioerr EXCEPT ![s] = TRUE]
                    /\ UNCHANGED <<file, recorded, writes>>
       ELSE /\ pc' = [pc EXCEPT ![s] = "closed"]
            /\ UNCHANGED <<file, recorded, writes, ioerr>>

\* A drop that opens and truncates the file whatever the mode.
DropBeginAnyMode(s) ==
    /\ drops' = [drops EXCEPT ![s] = @ + 1]
    /\ \E openOk \in BOOLEAN :
          IF openOk
          THEN /\ file' = [file EXCEPT ![file_path[s]] = Truncated]
               /\ recorded' = [recorded EXCEPT ![file_path[s]] = NotRecorded]
               /\ writes' = [writes EXCEPT ![s] = @ + 1]
               /\ pc' = [pc EXCEPT ![s] = "writing"]
               /\ UNCHANGED ioerr
          ELSE /\ pc' = [pc EXCEPT ![s] = "closed"]
               /\ ioerr' = [ioerr EXCEPT ![s] = TRUE]
               /\ UNCHANGED <<file, recorded, writes>>

\* A test end that leaks the RegTest: drop never runs.
DropBeginSkipped(s) ==
    /\ pc' = [pc EXCEPT ![s] = "closed"]
    /\ UNCHANGED <<drops, file, recorded, writes, ioerr>>

\* Drop::drop up to the open: in Mode::Write the file is opened with
\* create + truncate (the open may fail, which drop ignores); Mode::Read
\* does nothing.  Sets pc, file, recorded, drops, writes, ioerr.
DropBegin(s) ==
    /\ drops' = [drops EXCEPT ![s] = @ + 1]
    /\ IF mode[s] = "Write"
       THEN \E openOk \in BOOLEAN :
               IF openOk
               THEN /\ file' = [file EXCEPT ![file_path[s]] = Truncated]
                    /\ recorded' = [recorded EXCEPT ![file_path[s]] = NotRecorded]
                    /\ writes' = [writes EXCEPT ![s] = @ + 1]
                    /\ pc' = [pc EXCEPT ![s] = "writing"]
                    /\ UNCHANGED ioerr
               ELSE /\ pc' = [pc EXCEPT ![s] = "closed"]
                    /\ ioerr' = [ioerr EXCEPT ![s] = TRUE]
                    /\ UNCHANGED <<file, recorded, writes>>
       ELSE /\ pc' = [pc EXCEPT ![s] = "closed"]
            /\ UNCHANGED <<file, recorded, writes, ioerr>>

\* The rest of Drop::drop: to_writer_pretty into the BufWriter and flush.
\* n tokens reach the file (none, a part, or all); fewer than all of them is
\* a failed write, which drop ignores.
DropWrite(s) ==
    /\ pc[s] = "writing"
    /\ \E n \in {0, Len(Serialize(buffer[s])) \div 2, Len(Serialize(buffer[s]))} :
          LET full == Serialize(buffer[s])
              l == file_path[s]
              data == WriteAt0(file[l].data, SubSeq(full, 1, n))
          IN /\ file' = [file EXCEPT ![l] = [exists |-> TRUE, data |-> data]]
             /\ recorded' = [recorded EXCEPT ![l] =
                                IF n = Len(full) /\ alone[s]
                                THEN [valid |-> TRUE, entries |-> buffer[s]]
                                ELSE NotRecorded]
             /\ ioerr' = [ioerr EXCEPT ![s] = (n < Len(full))]
    /\ pc' = [pc EXCEPT ![s] = "closed"]
    /\ UNCHANGED <<file_path, mode, buffer, read_index, failure, log, drops, writes,
                   alone, source, runs, diffVars>>

\* --------------------------------------------------- the #[regtest] test
Active(t) == pc[t] \in {"live", "writing"}

\* The generated test function up to the body:
\* RegTest::new(path).expect(..); an Err panics before any RegTest exists.
TestStart(s, l) ==
    /\ pc[s] \in {"none", "closed"}
    /\ \E openOk \in BOOLEAN :
          LET r == RegTestNew(file[l], openOk) IN
          /\ pc' = [pc EXCEPT ![s] = IF r.ok THEN "live" ELSE "closed"]
          /\ mode' = [mode EXCEPT ![s] = r.mode]
          /\ buffer' = [buffer EXCEPT ![s] = r.buffer]
          /\ read_index' = [read_index EXCEPT ![s] = r.read_index]
          /\ failure' = [failure EXCEPT ![s] = Panic(r.err)]
          /\ alone' = [t \in Sessions |->
                         IF t = s
                         THEN ~\E u \in Sessions \ {s} :
                                 Active(u) /\ file_path[u] = l /\ mode[u] = "Write"
                         ELSE IF Active(t) /\ file_path[t] = l /\ r.mode = "Write"
                         THEN FALSE
                         ELSE alone[t]]
    /\ file_path' = [file_path EXCEPT ![s] = l]
    /\ source' = [source EXCEPT ![s] = recorded[l]]
    /\ log' = [log EXCEPT ![s] = <<>>]
    /\ drops' = [drops EXCEPT ![s] = 0]
    /\ writes' = [writes EXCEPT ![s] = 0]
    /\ ioerr' = [ioerr EXCEPT ![s] = FALSE]
    /\ runs' = runs + 1
    /\ UNCHANGED <<diskVars, diffVars>>

\* A submission that looks at the file again and takes its mode from it.
SubmitRechecksFile(s, message, reg_type) ==
    /\ pc[s] = "live"
    /\ mode' = [mode EXCEPT ![s] = IF file[file_path[s]].exists THEN "Read" ELSE "Write"]
    /\ LET r == RegtestInternal(mode[s], buffer[s], read_index[s], message, reg_type) IN
       /\ buffer' = [buffer EXCEPT ![s] = r.buffer]
       /\ read_index' = [read_index EXCEPT ![s] = r.read_index]
       /\ failure' = [failure EXCEPT ![s] = r.panic]
       /\ log' = [log EXCEPT ![s] = Append(@, RegEntry(reg_type, message))]
       /\ IF r.panic = NoFailure
          THEN UNCHANGED <<pc, file, recorded, drops, writes, ioerr>>
          ELSE DropBegin(s)
    /\ UNCHANGED <<file_path, alone, source, runs, diffVars>>

\* One submission of the test body: regtest_internal, and on a panic the
\* unwinding that drops the RegTest.
Submit(s, message, reg_type) ==
    /\ pc[s] = "live"
    /\ LET r == RegtestInternal(mode[s], buffer[s], read_index[s], message, reg_type) IN
       /\ buffer' = [buffer EXCEPT ![s] = r.buffer]
       /\ read_index' = [read_index EXCEPT ![s] = r.read_index]
       /\ failure' = [failure EXCEPT ![s] = r.panic]
       /\ log' = [log EXCEPT ![s] = Append(@, RegEntry(reg_type, message))]
       /\ IF r.panic = NoFailure
          THEN UNCHANGED <<pc, file, recorded, drops, writes, ioerr>>
          ELSE DropBegin(s)
    /\ UNCHANGED <<file_path, mode, alone, source, runs, diffVars>>

\* rt.regtest(value)
Regtest(s, value) == Submit(s, FmtDisplay(value), "Display")

\* rt.regtest_dbg(value)
RegtestDbg(s, value) == Submit(s, FmtDebug(value), "Debug")



\* A release that panics when baseline entries were left unread.
BodyReturnChecksRemaining(s) ==
    /\ pc[s] = "live"
    /\ failure' = [failure EXCEPT ![s] =
                      IF mode[s] = "Read" /\ read_index[s] < Len(buffer[s])
                      THEN Panic("MissingEntries") ELSE @]
    /\ DropBegin(s)
    /\ UNCHANGED <<file_path, mode, buffer, read_index, log, alone, source, runs, diffVars>>

\* A release that can run again on a RegTest that was already dropped.
BodyReturnAgain(s) ==
    /\ pc[s] \in {"live", "closed"}
    /\ mode[s] # "none"
    /\ DropBegin(s)
    /\ UNCHANGED <<file_path, mode, buffer, read_index, failure, log, alone, source, runs,
                   diffVars>>

\* The test body returns: the RegTest goes out of scope.
BodyReturn(s) ==
    /\ pc[s] = "live"
    /\ DropBegin(s)
    /\ UNCHANGED <<file_path, mode, buffer, read_index, failure, log, alone, source, runs,
                   diffVars>>

\* A failing assertion that ends the test without unwinding.
BodyAssertFailAbort(s) ==
    /\ pc[s] = "live"
    /\ failure' = [failure EXCEPT ![s] = Panic("AssertFailed")]
    /\ DropBeginSkipped(s)
    /\ UNCHANGED <<file_path, mode, buffer, read_index, log, alone, source, runs, diffVars>>

\* An assertion of the test body itself panics: unwinding drops the RegTest.
BodyAssertFail(s) ==
    /\ pc[s] = "live"
    /\ failure' = [failure EXCEPT ![s] = Panic("AssertFailed")]
    /\ DropBegin(s)
    /\ UNCHANGED <<file_path, mode, buffer, read_index, log, alone, source, runs, diffVars>>

\* Whether session s may submit once more under the bound maxEntries: a
\* baseline has at most maxEntries entries, and one more submission is let in.
MaySubmit(s, maxEntries) ==
    IF mode[s] = "Write" THEN Len(buffer[s]) < maxEntries ELSE Len(log[s]) <= maxEntries

\* The steps of the tests in slots S on the locations L, with at most maxRuns
\* test starts.
Step(S, L, maxRuns, maxEntries) ==
    \/ \E s \in S, l \in L : runs < maxRuns /\ TestStart(s, l)
    \/ \E s \in S, v \in Values : MaySubmit(s, maxEntries) /\ Regtest(s, v)
    \/ \E s \in S, v \in Values : MaySubmit(s, maxEntries) /\ RegtestDbg(s, v)
    \/ \E s \in S : BodyReturn(s)
    \/ \E s \in S : BodyAssertFail(s)
    \/ \E s \in S : DropWrite(s)

\* Runs of one test, one after another (one slot, one location).
Next == Step({1}, {"p"}, MaxRuns, MaxEntries)

Spec == Init /\ [][Next]_vars

\* One run of the test harness: two tests, each started once, running
\* concurrently, on the same location or on different ones.
ConcNext == Step(Sessions, Locations, Cardinality(Sessions), MaxConcEntries)

\* A snapshot an earlier run left: one Display entry "4".
OldSnapshot == [exists |-> TRUE, data |-> Serialize(<<RegEntry("Display", <<"4">>)>>)]

\* As Init, and a location may also hold a snapshot of an earlier run.
ConcInit ==
    /\ file \in [Locations -> {Absent, Garbage, OldSnapshot}]
    /\ recorded = [l \in Locations |-> NotRecorded]
    /\ pc = [s \in Sessions |-> "none"]
    /\ file_path = [s \in Sessions |-> NoPath]
    /\ mode = [s \in Sessions |-> "none"]
    /\ buffer = [s \in Sessions |-> <<>>]
    /\ read_index = [s \in Sessions |-> 0]
    /\ failure = [s \in Sessions |-> NoFailure]
    /\ log = [s \in Sessions |-> <<>>]
    /\ drops = [s \in Sessions |-> 0]
    /\ writes = [s \in Sessions |-> 0]
    /\ ioerr = [s \in Sessions |-> FALSE]
    /\ alone = [s \in Sessions |-> TRUE]
    /\ source = [s \in Sessions |-> NotRecorded]
    /\ runs = 0
    /\ exp_text = <<>>
    /\ act_text = <<>>
    /\ report = [done |-> FALSE, text |-> <<>>]

ConcSpec == ConcInit /\ [][ConcNext]_vars

\* ------------------------------------------------- diff_lines on its own
DiffAlphabet == {"a", "b", NL}

RECURSIVE TextsUpTo(_)
TextsUpTo(n) ==
    IF n = 0 THEN {<<>>}
    ELSE TextsUpTo(n - 1)
         \cup {Append(t, c) : t \in {u \in TextsUpTo(n - 1) : Len(u) = n - 1}, c \in DiffAlphabet}

\* "a\nb\nc" and "a\nx\nc"
ExampleExpected == <<"a", NL, "b", NL, "c">>
ExampleActual == <<"a", NL, "x", NL, "c">>

DiffInit ==
    /\ exp_text \in TextsUpTo(MaxLen) \cup {ExampleExpected}
    /\ act_text \in TextsUpTo(MaxLen) \cup {ExampleActual}
    /\ report = [done |-> FALSE, text |-> <<>>]
    /\ file = [l \in Locations |-> Absent]
    /\ recorded = [l \in Locations |-> NotRecorded]
    /\ pc = [s \in Sessions |-> "none"]
    /\ file_path = [s \in Sessions |-> NoPath]
    /\ mode = [s \in Sessions |-> "none"]
    /\ buffer = [s \in Sessions |-> <<>>]
    /\ read_index = [s \in Sessions |-> 0]
    /\ failure = [s \in Sessions |-> NoFailure]
    /\ log = [s \in Sessions |-> <<>>]
    /\ drops = [s \in Sessions |-> 0]
    /\ writes = [s \in Sessions |-> 0]
    /\ ioerr = [s \in Sessions |-> FALSE]
    /\ alone = [s \in Sessions |-> TRUE]
    /\ source = [s \in Sessions |-> NotRecorded]
    /\ runs = 0

\* One call diff_lines(&expected, &actual).
DiffCall ==
    /\ ~report.done
    /\ report' = [done |-> TRUE, text |-> diff_lines(exp_text, act_text)]
    /\ UNCHANGED <<exp_text, act_text, sessVars, diskVars>>

DiffNext == DiffCall

DiffSpec == DiffInit /\ [][DiffNext]_vars

\* ------------------------------------------------------------------ C6
\* The lines of a report that carry the given two-character prefix, without it.
RECURSIVE LinesWith(_, _)
LinesWith(prefix, ls) ==
    IF ls = <<>> THEN <<>>
    ELSE (IF IsPrefix(prefix, Head(ls)) THEN <<SubSeq(Head(ls), 3, Len(Head(ls)))>> ELSE <<>>)
         \o LinesWith(prefix, Tail(ls))

Min(a, b) == IF a <= b THEN a ELSE b

\* The lines at the indices from i on, present on both sides, where expected
\* and actual agree.
RECURSIVE EqualLinesFrom(_, _, _)
EqualLinesFrom(el, al, i) ==
    IF i > Min(Len(el), Len(al)) THEN <<>>
    ELSE (IF el[i] = al[i] THEN <<el[i]>> ELSE <<>>) \o EqualLinesFrom(el, al, i + 1)

\* Whether a is b with some elements left out.
RECURSIVE IsSubseq(_, _)
IsSubseq(a, b) ==
    IF a = <<>> THEN TRUE
    ELSE IF b = <<>> THEN FALSE
    ELSE IF Head(a) = Head(b) THEN IsSubseq(Tail(a), Tail(b))
    ELSE IsSubseq(a, Tail(b))

\* C6: every index at which the expected and the actual line are equal gives
\* a report line of two spaces and that line, in index order; and
\* diff("a\nb\nc", "a\nx\nc") is the lines "  a", "- b", "+ x", "  c".
C6_DiffContextLines ==
    report.done =>
        /\ IsSubseq(EqualLinesFrom(Lines(exp_text), Lines(act_text), 1),
                    LinesWith(ContextPrefix, Lines(report.text)))
        /\ (exp_text = ExampleExpected /\ act_text = ExampleActual) =>
              Lines(report.text) = << <<" ", " ", "a">>, <<"-", " ", "b">>,
                                      <<"+", " ", "x">>, <<" ", " ", "c">> >>

\* The example of C6 as the code computes it: the line "  c" is missing.
C6_ExampleAsComputed ==
    (report.done /\ exp_text = ExampleExpected /\ act_text = ExampleActual) =>
        Lines(report.text) = << <<" ", " ", "a">>, <<"-", " ", "b">>, <<"+", " ", "x">> >>

\* ------------------------------------------------------------ C1 .. C5
Created(s) == mode[s] # "none"
SubmitFailures == {"UnexpectedExtraEntry", "KindMismatch", "ContentMismatch"}
NoSubmitFailure(s) == failure[s].err \notin SubmitFailures

\* C1: a session created at a location whose artifact is the complete write of
\* a finalized Record-mode session (and could be opened) is in Compare mode
\* with the recorded entries as its baseline, and while its submissions are
\* the recorded sequence in order none of them fails.
C1_RoundTrip ==
    \A s \in Sessions :
        (pc[s] # "none" /\ source[s].valid /\ failure[s].err # "ReadError") =>
            /\ mode[s] = "Read"
            /\ buffer[s] = source[s].entries
            /\ IsPrefix(log[s], source[s].entries) => NoSubmitFailure(s)

C1_Witness ==
    \E s \in Sessions :
        /\ pc[s] = "closed" /\ mode[s] = "Read" /\ source[s].valid
        /\ Len(source[s].entries) = MaxEntries
        /\ log[s] = source[s].entries
        /\ \E i \in 1..Len(log[s]) : log[s][i] = RegEntry("Debug", FmtDebug(StrVal(<<"4">>)))
        /\ failure[s] = NoFailure

\* C2: in a Compare-mode session with a baseline of n entries, submissions
\* that match the baseline do not fail, and after n matching submissions one
\* more, whatever it is, fails with UnexpectedExtraEntry.
C2_ExtraEntry ==
    \A s \in Sessions :
        mode[s] = "Read" =>
            LET n == Len(buffer[s]) IN
            /\ IsPrefix(log[s], buffer[s]) => NoSubmitFailure(s)
            /\ (Len(log[s]) = n + 1 /\ SubSeq(log[s], 1, n) = buffer[s]) =>
                  (failure[s].err = "UnexpectedExtraEntry" /\ pc[s] = "closed")

C2_Witness ==
    \E s \in Sessions :
        /\ mode[s] = "Read" /\ Len(buffer[s]) = MaxEntries
        /\ Len(log[s]) = MaxEntries + 1 /\ SubSeq(log[s], 1, MaxEntries) = buffer[s]
        /\ failure[s].err = "UnexpectedExtraEntry"

Swap(seq, i, j) ==
    [k \in 1..Len(seq) |-> IF k = i THEN seq[j] ELSE IF k = j THEN seq[i] ELSE seq[k]]

\* C3: in a Compare-mode session whose submissions follow the baseline with
\* two distinct entries swapped, once the first swapped position has been
\* submitted the session has failed with KindMismatch or ContentMismatch.
C3_OrderSensitivity ==
    \A s \in Sessions :
        mode[s] = "Read" =>
            \A i, j \in 1..Len(buffer[s]) :
                (i < j /\ buffer[s][i] # buffer[s][j]
                 /\ Len(log[s]) >= i /\ IsPrefix(log[s], Swap(buffer[s], i, j))) =>
                    failure[s].err \in {"KindMismatch", "ContentMismatch"}

C3_Witness ==
    \E s \in Sessions :
        /\ mode[s] = "Read" /\ Len(buffer[s]) = 2
        /\ buffer[s][1].reg_type = buffer[s][2].reg_type
        /\ buffer[s][1].message # buffer[s][2].message
        /\ log[s] = <<buffer[s][2]>>
        /\ failure[s].err = "ContentMismatch"

\* C4: in a Compare-mode session, a submission whose text equals the expected
\* entry's text and whose kind is the other one fails with KindMismatch.
C4_KindSensitivity ==
    \A s \in Sessions :
        (mode[s] = "Read" /\ log[s] # <<>> /\ Len(log[s]) <= Len(buffer[s])) =>
            LET k == Len(log[s]) IN
            (/\ SubSeq(log[s], 1, k - 1) = SubSeq(buffer[s], 1, k - 1)
             /\ log[s][k].message = buffer[s][k].message
             /\ log[s][k].reg_type # buffer[s][k].reg_type) =>
                failure[s].err = "KindMismatch"

C4_Witness ==
    \E s \in Sessions :
        /\ mode[s] = "Read" /\ Len(log[s]) = 2 /\ Len(buffer[s]) = 2
        /\ log[s][1] = buffer[s][1]
        /\ log[s][2].message = buffer[s][2].message
        /\ log[s][2].reg_type # buffer[s][2].reg_type
        /\ failure[s].err = "KindMismatch"

Corrupt(f) == f.exists /\ ~Parse(f.data).ok

C5_NoSession ==
    \A s \in Sessions :
        failure[s].err = "CorruptSnapshot" =>
            /\ pc[s] = "closed" /\ mode[s] = "none"
            /\ drops[s] = 0 /\ writes[s] = 0
            /\ Corrupt(file[file_path[s]])

C5_CreateStep ==
    \A s \in Sessions, l \in Locations :
        (TestStart(s, l) /\ Corrupt(file[l])) =>
            /\ failure'[s].err \in {"CorruptSnapshot", "ReadError"}
            /\ pc'[s] = "closed" /\ mode'[s] = "none"
            /\ file' = file

\* C5: creating a session on an artifact that exists and does not parse fails
\* with CorruptSnapshot (unless the file cannot even be opened); no session
\* exists afterwards, in no mode, nothing is dropped or written for it, and
\* the artifact is left as it was.
C5_CorruptSnapshot == [][C5_CreateStep]_vars /\ []C5_NoSession

C5_Witness ==
    \E s \in Sessions :
        /\ failure[s].err = "CorruptSnapshot"
        /\ file[file_path[s]] = Garbage
        /\ runs = MaxRuns

\* ------------------------------------------------------------------ C7
C7_NoWriteStep ==
    \A s \in Sessions :
        /\ \A l \in Locations : TestStart(s, l) => file' = file
        /\ \A v \in Values : (Regtest(s, v) \/ RegtestDbg(s, v)) => file' = file
        /\ (mode[s] = "Read" /\ (BodyReturn(s) \/ BodyAssertFail(s))) => file' = file
        /\ (DropWrite(s) /\ ~ioerr'[s]) => file'[file_path[s]].data = Serialize(buffer[s])

C7_WriteCounts ==
    \A s \in Sessions :
        /\ pc[s] = "live" => writes[s] = 0
        /\ mode[s] = "Read" => writes[s] = 0
        /\ (mode[s] = "Write" /\ pc[s] \in {"writing", "closed"}) =>
              (writes[s] = 1 \/ (writes[s] = 0 /\ ioerr[s] /\ pc[s] = "closed"))

\* C7: no create and no submit changes the artifact; a Compare-mode session
\* changes it at no step and never opens it for writing; a Record-mode
\* session opens it for writing once, at its release (not at all when that
\* open fails), and a write that completes puts the serialized buffer there.
C7_WriteCount == [][C7_NoWriteStep]_vars /\ []C7_WriteCounts

C7_Witness ==
    \E s \in Sessions :
        /\ pc[s] = "closed" /\ mode[s] = "Write" /\ writes[s] = 1 /\ ~ioerr[s]
        /\ Len(buffer[s]) = MaxEntries
        /\ file[file_path[s]].data = Serialize(buffer[s])

\* ------------------------------------------------------------------ C8
\* C8: at every moment the artifact at a location is absent, or its prior
\* content, or the complete serialization of a buffer; never truncated to
\* nothing and never a part of a serialization.
C8_AtomicWrite ==
    \A l \in Locations :
        \/ file[l] = Absent
        \/ file[l] = Garbage
        \/ /\ Parse(file[l].data).ok
           /\ Serialize(Parse(file[l].data).entries) = file[l].data

\* ------------------------------------------------------------------ C9
\* C9: a Record-mode session whose write at finalize failed (the open or the
\* write itself) ends with a WriteError reported.
C9_WriteFailureSurfaced ==
    \A s \in Sessions :
        (pc[s] = "closed" /\ ioerr[s]) => failure[s].err = "WriteError"

\* ----------------------------------------------------------------- C10
\* C10: a session the test wrapper created is dropped exactly once however
\* the test ends (return, failed submission, failed assertion of the body),
\* never before the end and never twice; a Record-mode test ended by a
\* failed assertion still opens its file and, when the write completes,
\* leaves the entries submitted so far there.
C10_FinalizeOnEveryExit ==
    \A s \in Sessions :
        Created(s) =>
            /\ pc[s] = "live" => drops[s] = 0
            /\ pc[s] \in {"writing", "closed"} => drops[s] = 1
            /\ (pc[s] = "closed" /\ mode[s] = "Write" /\ ~ioerr[s]) =>
                  /\ writes[s] = 1
                  /\ buffer[s] = log[s]
                  /\ file[file_path[s]].data = Serialize(log[s])

C10_Witness ==
    \E s \in Sessions :
        /\ pc[s] = "closed" /\ mode[s] = "Write" /\ ~ioerr[s]
        /\ failure[s].err = "AssertFailed"
        /\ drops[s] = 1
        /\ Len(log[s]) = 1
        /\ file[file_path[s]].data = Serialize(log[s])

\* ----------------------------------------------------------------- C11
StartsAgain(s) == \E l \in Locations : TestStart(s, l)
Submits(s) == \E v \in Values : Regtest(s, v) \/ RegtestDbg(s, v)

C11_ClosedStep ==
    \A s \in Sessions :
        pc[s] = "closed" =>
            /\ ~(BodyReturn(s) \/ BodyAssertFail(s) \/ DropWrite(s) \/ Submits(s))
            /\ ~StartsAgain(s) =>
                  (pc'[s] = "closed" /\ drops'[s] = drops[s] /\ writes'[s] = writes[s])

C11_AtMostOnce == \A s \in Sessions : drops[s] <= 1 /\ writes[s] <= 1

C12_BufferIsLog == \A s \in Sessions : mode[s] = "Write" => buffer[s] = log[s]

C12_WriteStep ==
    \A s \in Sessions :
        (DropWrite(s) /\ ~ioerr'[s]) =>
            Parse(file'[file_path[s]].data) = [ok |-> TRUE, entries |-> log[s]]

\* C12: in a Record-mode session the buffer is at every moment the sequence
\* of submitted (kind, text) pairs in submission order, repeated entries
\* included, and the snapshot a completed write leaves parses to that sequence.
C12_OrderFidelity == [][C12_WriteStep]_vars /\ []C12_BufferIsLog

C12_Witness ==
    \E s \in Sessions :
        /\ pc[s] = "closed" /\ mode[s] = "Write" /\ ~ioerr[s]
        /\ Len(log[s]) = 3 /\ log[s][1] = log[s][2] /\ log[s][3] # log[s][2]
        /\ Parse(file[file_path[s]].data).entries = log[s]

\* ----------------------------------------------------------------- C13
C13_ModeAtCreate ==
    \A s \in Sessions, l \in Locations :
        TestStart(s, l) =>
            /\ mode'[s] = "Write" <=> ~file[l].exists
            /\ mode'[s] = "Read" => (file[l].exists /\ Parse(file[l].data).ok)
            /\ (file[l].exists /\ Parse(file[l].data).ok /\ failure'[s].err # "ReadError") =>
                  mode'[s] = "Read"

C13_ModeFixed == \A s \in Sessions : ~StartsAgain(s) => mode'[s] = mode[s]

\* C13: a session is in Record mode iff no artifact existed when it was
\* created, and in Compare mode iff one existed, could be opened and parsed;
\* no later step of any session changes its mode, also when the artifact
\* appears at its location meanwhile.
C13_ModeFixedAtCreation == [][C13_ModeAtCreate /\ C13_ModeFixed]_vars

C13_Witness ==
    \E s \in Sessions :
        /\ pc[s] = "live" /\ mode[s] = "Write" /\ Len(log[s]) = 1
        /\ file[file_path[s]].exists /\ Parse(file[file_path[s]].data).ok

\* ----------------------------------------------------------------- C14
C14_CursorInRange ==
    \A s \in Sessions :
        mode[s] = "Read" => (0 <= read_index[s] /\ read_index[s] <= Len(buffer[s]))

C14_CursorStep ==
    \A s \in Sessions :
        /\ StartsAgain(s) => read_index'[s] = 0
        /\ (~StartsAgain(s) /\ mode[s] = "Read") => read_index'[s] >= read_index[s]
        \* the entry a submission reads, buffer[read_index], exists
        /\ (Submits(s) /\ mode[s] = "Read" /\ failure'[s].err # "UnexpectedExtraEntry") =>
              read_index[s] < Len(buffer[s])

\* C14: in a Read-mode session read_index starts at 0, never decreases, and
\* always satisfies 0 <= read_index <= Len(buffer); a submission reads
\* buffer[read_index] only when read_index < Len(buffer).
C14_CursorInvariant == [][C14_CursorStep]_vars /\ []C14_CursorInRange

C14_Witness ==
    \E s \in Sessions :
        /\ mode[s] = "Read" /\ pc[s] = "closed"
        /\ failure[s].err = "UnexpectedExtraEntry"
        /\ read_index[s] = Len(buffer[s]) /\ Len(buffer[s]) >= 2

\* ----------------------------------------------------------------- C15
C15_AdvanceStep ==
    \A s \in Sessions :
        (Submits(s) /\ mode[s] = "Read") =>
            IF read_index[s] < Len(buffer[s])
            THEN /\ read_index'[s] = read_index[s] + 1
                 /\ failure'[s].err \in {"none", "KindMismatch", "ContentMismatch"}
            ELSE /\ read_index'[s] = read_index[s]
                 /\ failure'[s].err = "UnexpectedExtraEntry"

\* C15: a Read-mode submission with read_index < Len(buffer) advances
\* read_index by exactly one, whether it matches or fails with KindMismatch or
\* ContentMismatch; one that fails with UnexpectedExtraEntry leaves it unchanged.
C15_CursorAdvance == [][C15_AdvanceStep]_vars

C15_Witness ==
    \E s \in Sessions :
        /\ mode[s] = "Read" /\ pc[s] = "closed"
        /\ failure[s].err = "ContentMismatch"
        /\ read_index[s] = 2 /\ Len(log[s]) = 2 /\ Len(buffer[s]) = 3

\* ----------------------------------------------------------------- C16
C16_Classified(s, message, reg_type) ==
    (Submit(s, message, reg_type) /\ mode[s] = "Read" /\ read_index[s] < Len(buffer[s])) =>
        LET expected == buffer[s][read_index[s] + 1] IN
        /\ expected.reg_type # reg_type => failure'[s] = Panic("KindMismatch")
        /\ failure'[s].err = "ContentMismatch" <=>
              (expected.reg_type = reg_type /\ expected.message # message)
        /\ failure'[s].err = "ContentMismatch" =>
              failure'[s].diff = diff_lines(expected.message, message)
        /\ (expected.reg_type = reg_type /\ expected.message = message) =>
              /\ failure'[s] = NoFailure
              /\ read_index'[s] = read_index[s] + 1
              /\ UNCHANGED <<pc, file_path, mode, buffer, file>>

\* C16: a Read-mode submission whose kind differs from the expected entry's
\* fails with KindMismatch, also when the text differs too; ContentMismatch,
\* carrying diff_lines(expected, actual), is raised exactly when the kinds are
\* equal and the texts differ; with both equal the submission succeeds and
\* only read_index changes.
C16_ClassificationOrder ==
    [][\A s \in Sessions, v \in Values :
          /\ C16_Classified(s, FmtDisplay(v), "Display")
          /\ C16_Classified(s, FmtDebug(v), "Debug")]_vars

C16_Witness ==
    \E s \in Sessions :
        /\ mode[s] = "Read" /\ pc[s] = "closed"
        /\ failure[s].err = "KindMismatch"
        /\ read_index[s] = Len(log[s])
        /\ buffer[s][read_index[s]].reg_type # log[s][read_index[s]].reg_type
        /\ buffer[s][read_index[s]].message # log[s][read_index[s]].message

\* ----------------------------------------------------------------- C17
C17_ShortRun(s) ==
    /\ mode[s] = "Read"
    /\ IsPrefix(log[s], buffer[s])
    /\ Len(log[s]) < Len(buffer[s])

C17_NoFailureYet ==
    \A s \in Sessions : (pc[s] = "live" /\ C17_ShortRun(s)) => failure[s] = NoFailure

C17_ReturnStep ==
    \A s \in Sessions :
        (BodyReturn(s) /\ C17_ShortRun(s)) =>
            /\ read_index[s] < Len(buffer[s])
            /\ pc'[s] = "closed"
            /\ failure'[s] = NoFailure
            /\ file' = file

\* C17: a Read-mode session whose submissions are a matching strict prefix
\* of the baseline (none at all included) has raised no failure, and when its
\* body returns with read_index < Len(buffer) the drop raises none either and
\* leaves the file as it is.
C17_ShrinkingSequencePasses == [][C17_ReturnStep]_vars /\ []C17_NoFailureYet

C17_Witness ==
    \E s \in Sessions :
        /\ mode[s] = "Read" /\ pc[s] = "closed" /\ failure[s] = NoFailure
        /\ Len(log[s]) = 1 /\ read_index[s] = 1 /\ Len(buffer[s]) = 3
        /\ IsPrefix(log[s], buffer[s])
        /\ file[file_path[s]].data = Serialize(buffer[s])

\* ----------------------------------------------------------------- C18
\* The last index of the run of differing indices that starts at i.
RECURSIVE C18_RunEnd(_, _, _)
C18_RunEnd(el, al, i) ==
    IF i + 1 <= Max(Len(el), Len(al)) /\ LineAt(el, i + 1) # LineAt(al, i + 1)
    THEN C18_RunEnd(el, al, i + 1)
    ELSE i

\* The non-empty lines of ls at the indices i..j, each with the prefix.
C18_RunLines(prefix, ls, i, j) ==
    LET at == [k \in 1..(j - i + 1) |-> LineAt(ls, i + k - 1)]
        kept == SelectSeq(at, LAMBDA l : l # <<>>)
    IN [k \in 1..Len(kept) |-> prefix \o kept[k]]

\* Run by run from index i on: the "- " lines of a run, then its "+ " lines.
RECURSIVE C18_Grouped(_, _, _)
C18_Grouped(el, al, i) ==
    IF i > Max(Len(el), Len(al)) THEN <<>>
    ELSE IF LineAt(el, i) = LineAt(al, i) THEN C18_Grouped(el, al, i + 1)
    ELSE LET j == C18_RunEnd(el, al, i)
         IN C18_RunLines(MinusPrefix, el, i, j) \o C18_RunLines(PlusPrefix, al, i, j)
               \o C18_Grouped(el, al, j + 1)

C18_Changes(ls) == SelectSeq(ls, LAMBDA l : ~IsPrefix(ContextPrefix, l))

\* C18: the "- " and "+ " lines of the report are, for every maximal run of
\* indices where the expected and the actual line differ and in index order
\* of the runs, the non-empty expected lines of the run with "- ", then the
\* non-empty actual lines of the run with "+ "; a run that reaches the end of
\* the input is written the same way, and an index missing on one side reads
\* as an empty line and gives no "- " or "+ " line.
C18_DiffBlockGrouping ==
    report.done =>
        C18_Changes(Lines(report.text)) = C18_Grouped(Lines(exp_text), Lines(act_text), 1)

\* "a\nb" against "b\na": one run of two indices, both removals first.
C18_Witness ==
    /\ report.done
    /\ exp_text = <<"a", NL, "b">> /\ act_text = <<"b", NL, "a">>
    /\ Lines(report.text) = << <<"-", " ", "a">>, <<"-", " ", "b">>,
                               <<"+", " ", "b">>, <<"+", " ", "a">> >>

\* ----------------------------------------------------------------- C19
\* Some step of the test in slot s.
C19_Acts(s) ==
    StartsAgain(s) \/ Submits(s) \/ BodyReturn(s) \/ BodyAssertFail(s) \/ DropWrite(s)

C19_Apart == \A s, t \in Sessions : s # t => file_path[s] # file_path[t]

\* A step of s changes no file but its own, and its own only in Mode::Write.
C19_OwnFileOnly ==
    \A s \in Sessions, l \in Locations :
        (C19_Acts(s) /\ file'[l] # file[l]) => (l = file_path[s] /\ mode[s] = "Write")

\* The submissions lg made one after another by a session on its own.
RECURSIVE C19_Replay(_, _, _, _)
C19_Replay(m, buf, idx, lg) ==
    IF lg = <<>> THEN Outcome(buf, idx, NoFailure)
    ELSE LET r == RegtestInternal(m, buf, idx, Head(lg).message, Head(lg).reg_type)
         IN IF r.panic # NoFailure THEN r
            ELSE C19_Replay(m, r.buffer, r.read_index, Tail(lg))

C19_AsAlone ==
    C19_Apart =>
        \A s \in Sessions :
            mode[s] \in {"Read", "Write"} =>
                LET l == file_path[s]
                    r == C19_Replay(mode[s], IF mode[s] = "Write" THEN <<>> ELSE buffer[s],
                                    0, log[s])
                IN /\ buffer[s] = r.buffer
                   /\ read_index[s] = r.read_index
                   /\ IF r.panic # NoFailure THEN failure[s] = r.panic
                      ELSE failure[s] \in {NoFailure, Panic("AssertFailed")}
                   /\ mode[s] = "Read" =>
                         (file[l].exists /\ Parse(file[l].data) = [ok |-> TRUE,
                                                                    entries |-> buffer[s]])
                   /\ (mode[s] = "Write" /\ pc[s] = "closed" /\ ~ioerr[s]) =>
                         file[l] = [exists |-> TRUE, data |-> Serialize(log[s])]

\* C19: with the tests bound to pairwise distinct locations and their steps
\* interleaved in any way, a step of a session changes only the file at its
\* own location, and only in Mode::Write; and each session's buffer,
\* read_index, failure and final file are what its own submissions give when
\* made one after another with no other session.
C19_Isolation == [][C19_OwnFileOnly]_vars /\ [](C19_AsAlone)

C19_Witness ==
    /\ file_path[1] # file_path[2]
    /\ mode[1] = "Write" /\ mode[2] = "Write"
    /\ pc[1] = "writing" /\ Len(log[1]) = 1
    /\ pc[2] = "closed" /\ Len(log[2]) = 1 /\ log[2] # log[1]
    /\ ~ioerr[2] /\ file[file_path[2]].data = Serialize(log[2])

\* ----------------------------------------------------------------- C20
C20_Parseable(f) == f.exists /\ Parse(f.data).ok

C20_SnapshotKept == \A l \in Locations : C20_Parseable(file[l]) => file'[l] = file[l]

C20_ReadAgain ==
    \A s \in Sessions, l \in Locations :
        (TestStart(s, l) /\ C20_Parseable(file[l]) /\ failure'[s].err # "ReadError") =>
            /\ pc'[s] = "live" /\ mode'[s] = "Read"
            /\ buffer'[s] = Parse(file[l].data).entries

C20_BufferKept ==
    \A s \in Sessions : (mode[s] = "Read" /\ ~StartsAgain(s)) => buffer'[s] = buffer[s]

\* The outcome of a Read-mode run is that of its submissions against the
\* snapshot on disk.
C20_SameOutcome ==
    \A s \in Sessions :
        mode[s] = "Read" =>
            LET base == Parse(file[file_path[s]].data).entries
                r == C19_Replay("Read", base, 0, log[s])
            IN /\ buffer[s] = base
               /\ read_index[s] = r.read_index
               /\ IF r.panic # NoFailure THEN failure[s] = r.panic
                  ELSE failure[s] \in {NoFailure, Panic("AssertFailed")}

\* C20: with the runs of a test one after another, once the file at a
\* location parses no step changes it; every RegTest created there afterwards
\* is in Mode::Read with the parsed entries as its buffer; no submission,
\* mismatch or drop changes that buffer; so the outcome of a run depends on
\* its submissions only and is the same in every later run.
C20_BaselineStability ==
    [][C20_SnapshotKept /\ C20_ReadAgain /\ C20_BufferKept]_vars /\ []C20_SameOutcome

\* The third run of a test: it fails against the same two entries the run
\* before it was compared to.
C20_Witness ==
    \E s \in Sessions :
        /\ runs = 3 /\ mode[s] = "Read" /\ pc[s] = "closed"
        /\ failure[s].err = "ContentMismatch"
        /\ Len(buffer[s]) = 2 /\ Len(log[s]) = 2
        /\ Parse(file[file_path[s]].data).entries = buffer[s]

====
